---- MODULE Spec2Model ----
(***************************************************************************)
(* Model of export_conda_env.py and import_conda_env.py.                   *)
(*                                                                         *)
(* Python strings are sequences of one-character strings, so that          *)
(* str.partition, str.replace, str.split, str.startswith, str.strip and    *)
(* str.join are computed character by character.  None is the empty        *)
(* sequence <<>> and a present value v is <<v>> wherever a Python variable *)
(* may hold None.                                                          *)
(***************************************************************************)
EXTENDS Naturals, Sequences, FiniteSets, TLC

VARIABLES
    tool,            \* which script is running: "export" or "import"
    pc,              \* position of the running script
    cwd,             \* working directory: [yml, req], each <<>> (absent) or <<content>>
    conda_exe,       \* result of get_conda_executable, <<>> before it returned
    explicit_deps,   \* env_data.get("dependencies", [])
    answers,         \* answers[i]: what check_pypi_package returns for explicit_deps[i]
    pip_packages,    \* export_environment's pip_packages
    conda_only,      \* export_environment's conda_only
    tree,            \* json.loads(pipdeptree_result.stdout)
    written,         \* the files this run has written
    latest,          \* the manifest file most recently written by an export run
    runs,            \* number of export runs started
    env_name,        \* import: the chosen environment name
    python_version,  \* import: python_version of create_env_from_requirements
    python_spec,     \* import: python_spec of create_env_from_requirements
    manifest_used,   \* import: the manifest file main() selected
    envs,            \* environments the environment manager holds
    calls,           \* subprocess invocations of this run, in order: [cmd, rc]
    log,             \* the messages printed that the properties refer to
    error,           \* the uncaught exception, <<>> if none
    exit_code        \* process exit status, <<>> while running

vars == <<tool, pc, cwd, conda_exe, explicit_deps, answers, pip_packages, conda_only,
          tree, written, latest, runs, env_name, python_version, python_spec,
          manifest_used, envs, calls, log, error, exit_code>>

(***************************************************************************)
(* Bounds of the model.                                                    *)
(***************************************************************************)
MaxDeps == 2      \* longest list of explicit dependencies
MaxTree == 2      \* most packages in the pipdeptree graph
MaxLines == 2     \* most lines of an arbitrary requirements.txt
MaxRuns == 2      \* most export runs in one working directory
RtMaxDeps == 1    \* longest list of explicit dependencies in SpecRoundTrip
RtMaxTree == 1    \* most packages in the pipdeptree graph in SpecRoundTrip

(***************************************************************************)
(* Python string operations.                                               *)
(***************************************************************************)
NL == "\n"

\* s[i:] (1-based i)
From(s, i) == SubSeq(s, i, Len(s))

\* s.startswith(p)
StartsWith(s, p) == Len(s) >= Len(p) /\ SubSeq(s, 1, Len(p)) = p

\* s.find(sub), 1-based; 0 when absent
RECURSIVE FindFrom(_, _, _)
FindFrom(s, sub, i) ==
    IF i + Len(sub) - 1 > Len(s) THEN 0
    ELSE IF SubSeq(s, i, i + Len(sub) - 1) = sub THEN i
    ELSE FindFrom(s, sub, i + 1)

Find(s, sub) == FindFrom(s, sub, 1)

\* sub in s
Contains(s, sub) == Find(s, sub) # 0

\* s.partition(sep): <<head, sep, tail>>, or <<s, "", "">> when sep is absent
Partition(s, sep) ==
    LET i == Find(s, sep)
    IN  IF i = 0 THEN <<s, <<>>, <<>>>>
        ELSE <<SubSeq(s, 1, i - 1), sep, From(s, i + Len(sep))>>

\* s.replace(old, new, 1)
ReplaceFirst(s, old, new) ==
    LET i == Find(s, old)
    IN  IF i = 0 THEN s
        ELSE SubSeq(s, 1, i - 1) \o new \o From(s, i + Len(old))

\* s.split(sep)[-1]: what follows the last of the left-to-right,
\* non-overlapping occurrences of sep
RECURSIVE SplitLast(_, _)
SplitLast(s, sep) ==
    LET i == Find(s, sep)
    IN  IF i = 0 THEN s ELSE SplitLast(From(s, i + Len(sep)), sep)

Whitespace == {" ", NL}

\* s.strip()
RECURSIVE LStrip(_)
LStrip(s) == IF s # <<>> /\ Head(s) \in Whitespace THEN LStrip(Tail(s)) ELSE s

RECURSIVE RStrip(_)
RStrip(s) ==
    IF s # <<>> /\ s[Len(s)] \in Whitespace THEN RStrip(SubSeq(s, 1, Len(s) - 1)) ELSE s

Strip(s) == RStrip(LStrip(s))

LowerChar(c) == IF c = "P" THEN "p" ELSE c

\* s.lower() (the model's only upper-case letter is P)
Lower(s) == [i \in 1..Len(s) |-> LowerChar(s[i])]

\* sep.join(ss)
RECURSIVE Join(_, _)
Join(ss, sep) ==
    IF ss = <<>> THEN <<>>
    ELSE IF Len(ss) = 1 THEN ss[1]
    ELSE ss[1] \o sep \o Join(Tail(ss), sep)

\* the lines a text file yields when iterated, each with its newline
RECURSIVE FileLines(_)
FileLines(text) ==
    IF text = <<>> THEN <<>>
    ELSE LET i == Find(text, <<NL>>)
         IN  IF i = 0 THEN <<text>>
             ELSE <<SubSeq(text, 1, i)>> \o FileLines(From(text, i + 1))

\* all sequences over S of length at most n
SeqUpTo(S, n) == UNION {[1..k -> S] : k \in 0..n}

\* the elements of a sequence
Range(s) == {s[i] : i \in 1..Len(s)}

EqEq == <<"=", "=">>
GtEq == <<">", "=">>

None == <<>>
Some(v) == <<v>>

(***************************************************************************)
(* The data the scripts read and write.                                    *)
(***************************************************************************)
\* a JSON string and a JSON object, as entries of "dependencies"
Str(s) == [kind |-> "str", text |-> s]
PipDict == [kind |-> "dict"]

\* isinstance(dep, str)
IsStr(dep) == dep.kind = "str"

\* entries `conda env export --json` may list: name, name=version, and the
\* nested {"pip": [...]} object
ExplicitEntries ==
    {Str(<<"a">>), Str(<<"a", "=", "1">>), Str(<<"b", "=", "2">>), PipDict}

PipKeys == {<<"x">>, <<"y">>}

InstalledVersion(key) == IF key = <<"x">> THEN <<"1">> ELSE <<"2">>

\* one entry of pipdeptree's JSON
TreeNodes ==
    {[package |-> [key |-> k, installed_version |-> InstalledVersion(k)],
      dependencies |-> d] :
        k \in PipKeys, d \in {<<>>} \cup {<<[key |-> j]>> : j \in PipKeys}}

(***************************************************************************)
(* export_conda_env.py                                                     *)
(***************************************************************************)
PathEntry == "PATH (shutil.which)"
ScriptsConda == "sys.prefix/Scripts/conda.exe"
BinConda == "sys.prefix/bin/conda"
WhichConda == "which:conda"

\* get_conda_executable of the export script: the executable found, and the
\* locations the FileNotFoundError message lists otherwise
ExportGetCondaExecutable(inPath, scriptsExists, binExists) ==
    IF inPath THEN [found |-> Some(WhichConda), searched |-> <<>>]
    ELSE IF scriptsExists
         THEN [found |-> Some(ScriptsConda), searched |-> <<PathEntry>>]
    ELSE IF binExists
         THEN [found |-> Some(BinConda), searched |-> <<PathEntry, ScriptsConda>>]
    ELSE [found |-> None, searched |-> <<PathEntry, ScriptsConda, BinConda>>]

\* the loop over explicit_deps; ans[i] is what check_pypi_package
\* returns for the i-th entry.  Result: <<pip_packages, conda_only>>
RECURSIVE ClassifyFrom(_, _, _, _, _)
ClassifyFrom(deps, ans, i, pip, conda) ==
    IF i > Len(deps) THEN <<pip, conda>>
    ELSE IF ~IsStr(deps[i]) THEN ClassifyFrom(deps, ans, i + 1, pip, conda)
    ELSE IF ans[i]
         THEN ClassifyFrom(deps, ans, i + 1,
                           Append(pip, ReplaceFirst(deps[i].text, <<"=">>, EqEq)), conda)
    ELSE ClassifyFrom(deps, ans, i + 1, pip, Append(conda, deps[i].text))

\* the test of the loop negated
Classify_Negated(deps, ans) ==
    ClassifyFrom(deps, [i \in 1..Len(deps) |-> ~ans[i]], 1, <<>>, <<>>)

Classify(deps, ans) == ClassifyFrom(deps, ans, 1, <<>>, <<>>)

\* a package's own key left out of all_dependencies
AllDependencies_NoSelf(t) ==
    UNION {{t[i].dependencies[j].key : j \in 1..Len(t[i].dependencies)}
              \ {t[i].package.key} : i \in 1..Len(t)}

\* all_dependencies: the keys listed in any package's dependencies
AllDependencies(t) ==
    UNION {{t[i].dependencies[j].key : j \in 1..Len(t[i].dependencies)} :
              i \in 1..Len(t)}

\* root_nodes: the entries of the tree whose key is no dependency, in order
RECURSIVE RootNodesFrom(_, _, _)
RootNodesFrom(t, deps, i) ==
    IF i > Len(t) THEN <<>>
    ELSE IF t[i].package.key \notin deps
         THEN <<t[i]>> \o RootNodesFrom(t, deps, i + 1)
    ELSE RootNodesFrom(t, deps, i + 1)

RootNodes(t) == RootNodesFrom(t, AllDependencies(t), 1)

\* f"{pkg['package']['key']}=={pkg['package']['installed_version']}"
RootSpec(pkg) == pkg.package.key \o EqEq \o pkg.package.installed_version

\* the list pip_packages.extend receives
RootSpecs(t) == LET r == RootNodes(t) IN [i \in 1..Len(r) |-> RootSpec(r[i])]

ExportedEnvName == "exported_env"

\* the pip entry appended without the `if pip_packages` test
MixedEnv_AlwaysPip(conda, pip) ==
    [name |-> Some(ExportedEnvName),
     dependencies |->
        [i \in 1..Len(conda) |-> Str(conda[i])] \o <<[kind |-> "pip", pip |-> pip]>>]

\* the env dictionary that is dumped to environment.yml
MixedEnv(conda, pip) ==
    [name |-> Some(ExportedEnvName),
     dependencies |->
        [i \in 1..Len(conda) |-> Str(conda[i])]
        \o (IF pip # <<>> THEN <<[kind |-> "pip", pip |-> pip]>> ELSE <<>>)]

\* the text written to requirements.txt
FlatText(pip) == Join(pip, <<NL>>) \o <<NL>>

\* the branches of `if conda_only` exchanged
ManifestChoice_Exchanged(conda) ==
    IF conda # <<>> THEN "requirements.txt" ELSE "environment.yml"

\* which manifest the export writes
ManifestChoice(conda) ==
    IF conda # <<>> THEN "environment.yml" ELSE "requirements.txt"

\* ensure_import: the module is importable, or the user agrees and pip
\* installs it, or pip fails, or the user declines
EnsureOutcomes == {"present", "installed", "install_failed", "declined"}

EnsureOk(outcome) == outcome \in {"present", "installed"}

Call(cmd, arg, rc) == [cmd |-> cmd, arg |-> arg, rc |-> rc]

EnsureCalls(outcome, module) ==
    IF outcome = "installed" THEN <<Call("pip install", <<module>>, 0)>>
    ELSE IF outcome = "install_failed" THEN <<Call("pip install", <<module>>, 1)>>
    ELSE <<>>

NoError == <<>>
Raised(type, searched) == <<[type |-> type, searched |-> searched]>>


localsExport == <<explicit_deps, answers, pip_packages, conda_only, tree>>
localsImport == <<env_name, python_version, python_spec, manifest_used>>
history == <<latest, runs>>

\* the process ends with an uncaught exception or sys.exit(1)
Fail(type, searched) ==
    /\ pc' = "failed"
    /\ error' = Raised(type, searched)
    /\ exit_code' = Some(1)

\* conda_exe = get_conda_executable()
ExportLocate ==
    /\ tool = "export" /\ pc = "locate"
    /\ \E inPath, scriptsExists, binExists \in BOOLEAN :
         LET r == ExportGetCondaExecutable(inPath, scriptsExists, binExists)
         IN  IF r.found # None
             THEN /\ conda_exe' = r.found
                  /\ pc' = "export_history"
                  /\ UNCHANGED <<error, exit_code>>
             ELSE /\ Fail("FileNotFoundError", r.searched)
                  /\ UNCHANGED conda_exe
    /\ UNCHANGED <<tool, cwd, localsExport, localsImport, history, written, envs,
                   calls, log>>

\* the answers check_pypi_package may give for a list: one per call
AnswersFor(deps) ==
    {ans \in [1..Len(deps) -> BOOLEAN] : \A i \in 1..Len(deps) : ~IsStr(deps[i]) => ~ans[i]}

\* subprocess.run([conda_exe, "env", "export", "--from-history", "--json"],
\* check=True) and env_data.get("dependencies", []); n bounds the list
CondaEnvExport(n) ==
    /\ tool = "export" /\ pc = "export_history"
    /\ \E rc \in {0, 1} :
         /\ calls' = Append(calls, Call("conda env export", <<>>, rc))
         /\ IF rc = 0
            THEN /\ \E deps \in SeqUpTo(ExplicitEntries, n) :
                      \E ans \in AnswersFor(deps) :
                         /\ explicit_deps' = deps
                         /\ answers' = ans
                 /\ pc' = "classify"
                 /\ UNCHANGED <<error, exit_code>>
            ELSE /\ Fail("CalledProcessError", <<>>)
                 /\ UNCHANGED <<explicit_deps, answers>>
    /\ UNCHANGED <<tool, cwd, conda_exe, pip_packages, conda_only, tree, localsImport,
                   history, written, envs, log>>

\* for dep in explicit_deps: ...
ClassifyDeps ==
    /\ tool = "export" /\ pc = "classify"
    /\ LET r == Classify(explicit_deps, answers)
       IN  /\ pip_packages' = r[1]
           /\ conda_only' = r[2]
    /\ pc' = "ensure_pipdeptree"
    /\ UNCHANGED <<tool, cwd, conda_exe, explicit_deps, answers, tree, localsImport,
                   history, written, envs, calls, log, error, exit_code>>

\* ensure_import("pipdeptree")
EnsurePipdeptree ==
    /\ tool = "export" /\ pc = "ensure_pipdeptree"
    /\ \E o \in EnsureOutcomes :
         /\ calls' = calls \o EnsureCalls(o, "pipdeptree")
         /\ IF EnsureOk(o)
            THEN pc' = "pipdeptree" /\ UNCHANGED <<error, exit_code>>
            ELSE Fail("SystemExit", <<>>)
    /\ UNCHANGED <<tool, cwd, conda_exe, localsExport, localsImport, history, written,
                   envs, log>>

\* subprocess.run([sys.executable, "-m", "pipdeptree", ...], check=True), the
\* root computation and pip_packages.extend; n bounds the tree
RunPipdeptree(n) ==
    /\ tool = "export" /\ pc = "pipdeptree"
    /\ \E rc \in {0, 1} :
         /\ calls' = Append(calls, Call("pipdeptree", <<>>, rc))
         /\ IF rc = 0
            THEN /\ \E t \in SeqUpTo(TreeNodes, n) :
                      /\ tree' = t
                      /\ pip_packages' = pip_packages \o RootSpecs(t)
                 /\ pc' = "write"
                 /\ UNCHANGED <<error, exit_code>>
            ELSE /\ Fail("CalledProcessError", <<>>)
                 /\ UNCHANGED <<tree, pip_packages>>
    /\ UNCHANGED <<tool, cwd, conda_exe, explicit_deps, answers, conda_only,
                   localsImport, history, written, envs, log>>

\* if conda_only: ... else: ...
WriteManifest ==
    /\ tool = "export" /\ pc = "write"
    /\ IF ManifestChoice(conda_only) = "environment.yml"
       THEN \E o \in EnsureOutcomes :
              /\ calls' = calls \o EnsureCalls(o, "yaml")
              /\ IF EnsureOk(o)
                 THEN /\ cwd' = [cwd EXCEPT !.yml = Some(MixedEnv(conda_only, pip_packages))]
                      /\ written' = written \cup {"environment.yml"}
                      /\ latest' = Some("environment.yml")
                      /\ log' = Append(log, "SUCCESS environment.yml")
                      /\ pc' = "done"
                      /\ exit_code' = Some(0)
                      /\ UNCHANGED error
                 ELSE /\ Fail("SystemExit", <<>>)
                      /\ UNCHANGED <<cwd, written, latest, log>>
       ELSE /\ cwd' = [cwd EXCEPT !.req = Some(FlatText(pip_packages))]
            /\ written' = written \cup {"requirements.txt"}
            /\ latest' = Some("requirements.txt")
            /\ log' = Append(log, "SUCCESS requirements.txt")
            /\ pc' = "done"
            /\ exit_code' = Some(0)
            /\ UNCHANGED <<calls, error>>
    /\ UNCHANGED <<tool, conda_exe, localsExport, localsImport, runs, envs>>


(***************************************************************************)
(* import_conda_env.py                                                     *)
(***************************************************************************)
\* get_conda_executable of the import script; its FileNotFoundError message
\* names no location
ImportGetCondaExecutable(inPath, scriptsExists, binExists) ==
    IF inPath THEN [found |-> Some(WhichConda), searched |-> <<>>]
    ELSE IF scriptsExists THEN [found |-> Some(ScriptsConda), searched |-> <<>>]
    ELSE IF binExists THEN [found |-> Some(BinConda), searched |-> <<>>]
    ELSE [found |-> None, searched |-> <<>>]

\* requirements.txt tested before environment.yml
DetectedManifest_ReqFirst(dir) ==
    IF dir.req # None THEN Some("requirements.txt")
    ELSE IF dir.yml # None THEN Some("environment.yml")
    ELSE None

\* main's if / elif / else over env_yml.exists() and req_txt.exists()
DetectedManifest(dir) ==
    IF dir.yml # None THEN Some("environment.yml")
    ELSE IF dir.req # None THEN Some("requirements.txt")
    ELSE None

PythonEq == <<"p", "y", "t", "h", "o", "n", "=", "=">>
PythonGe == <<"p", "y", "t", "h", "o", "n", ">", "=">>
PythonName == <<"p", "y", "t", "h", "o", "n">>
ImportedEnv == <<"i", "m", "p", "o", "r", "t", "e", "d", "_", "e", "n", "v">>

\* the test of the scan loop without .lower()
IsPythonPin_CaseSensitive(line) ==
    StartsWith(line, PythonEq) \/ StartsWith(line, PythonGe)

\* the test of the scan loop, on the stripped line
IsPythonPin(line) ==
    StartsWith(Lower(line), PythonEq) \/ StartsWith(Lower(line), PythonGe)

\* line.split("==")[-1] if "==" in line else line.split(">=")[-1]
VersionOf(line) ==
    IF Contains(line, EqEq) THEN SplitLast(line, EqEq) ELSE SplitLast(line, GtEq)

\* the scan loop of create_env_from_requirements: python_version
RECURSIVE ScanLines(_, _)
ScanLines(ls, i) ==
    IF i > Len(ls) THEN None
    ELSE LET line == Strip(ls[i])
         IN  IF IsPythonPin(line) THEN Some(VersionOf(line)) ELSE ScanLines(ls, i + 1)

ScanPythonVersion(text) == ScanLines(FileLines(text), 1)

\* f"python={python_version}" if python_version else "python"
PythonSpecOf(pv) ==
    IF pv # None /\ pv[1] # <<>> THEN PythonName \o <<"=">> \o pv[1] ELSE PythonName

\* input(...).strip(), then the default when nothing was typed
ChosenName(typed, default) ==
    IF Strip(typed) # <<>> THEN Strip(typed) ELSE default

\* what the user may type at a prompt
Typed == {<<>>, <<" ">>, <<"m">>}

\* env_data.get("name", "imported_env")
OriginalName(doc) == IF doc.name # None THEN doc.name[1] ELSE ImportedEnv

\* conda_exe = get_conda_executable()
ImportLocate ==
    /\ tool = "import" /\ pc = "locate"
    /\ \E inPath, scriptsExists, binExists \in BOOLEAN :
         LET r == ImportGetCondaExecutable(inPath, scriptsExists, binExists)
         IN  IF r.found # None
             THEN /\ conda_exe' = r.found
                  /\ pc' = "detect"
                  /\ UNCHANGED <<error, exit_code>>
             ELSE /\ Fail("FileNotFoundError", r.searched)
                  /\ UNCHANGED conda_exe
    /\ UNCHANGED <<tool, cwd, localsExport, localsImport, history, written, envs,
                   calls, log>>

\* main, after get_conda_executable returned
DetectManifest ==
    /\ tool = "import" /\ pc = "detect"
    /\ LET m == DetectedManifest(cwd)
       IN  /\ manifest_used' = m
           /\ IF m = Some("environment.yml")
              THEN /\ pc' = "from_yml"
                   /\ UNCHANGED <<log, exit_code>>
              ELSE IF m = Some("requirements.txt")
              THEN /\ pc' = "from_req"
                   /\ UNCHANGED <<log, exit_code>>
              ELSE /\ log' = Append(log, "ERROR no manifest")
                   /\ pc' = "done"
                   /\ exit_code' = Some(0)
    /\ UNCHANGED <<tool, cwd, conda_exe, localsExport, env_name, python_version,
                   python_spec, history, written, envs, calls, error>>

\* create_env_from_yml
CreateEnvFromYml ==
    /\ tool = "import" /\ pc = "from_yml"
    /\ \E typed \in Typed, rc \in {0, 1} :
         LET name == ChosenName(typed, OriginalName(cwd.yml[1]))
         IN  /\ env_name' = name
             /\ calls' = Append(calls, Call("conda env create -f", <<name>>, rc))
             /\ IF rc = 0
                THEN /\ envs' = envs \cup {name}
                     /\ log' = Append(log, "SUCCESS created")
                     /\ pc' = "done"
                     /\ exit_code' = Some(0)
                     /\ UNCHANGED error
                ELSE /\ Fail("CalledProcessError", <<>>)
                     /\ UNCHANGED <<envs, log>>
    /\ UNCHANGED <<tool, cwd, conda_exe, localsExport, python_version, python_spec,
                   manifest_used, history, written>>

\* create_env_from_requirements up to python_spec
ReadRequirements ==
    /\ tool = "import" /\ pc = "from_req"
    /\ \E typed \in Typed : env_name' = ChosenName(typed, ImportedEnv)
    /\ python_version' = ScanPythonVersion(cwd.req[1])
    /\ python_spec' = PythonSpecOf(python_version')
    /\ pc' = "req_create"
    /\ UNCHANGED <<tool, cwd, conda_exe, localsExport, manifest_used, history, written,
                   envs, calls, log, error, exit_code>>

\* the exit status of create not checked (subprocess.call)
AfterCreateFailed_Unchecked ==
    /\ pc' = "req_install"
    /\ UNCHANGED <<envs, error, exit_code>>

\* what follows a failed subprocess.check_call(create): CalledProcessError
AfterCreateFailed ==
    /\ Fail("CalledProcessError", <<>>)
    /\ UNCHANGED envs

\* subprocess.check_call([conda_exe, "create", "-y", "-n", env_name, python_spec])
CreateBareEnv ==
    /\ tool = "import" /\ pc = "req_create"
    /\ \E rc \in {0, 1} :
         /\ calls' = Append(calls, Call("conda create", <<env_name, python_spec>>, rc))
         /\ IF rc = 0
            THEN /\ envs' = envs \cup {env_name}
                 /\ pc' = "req_install"
                 /\ UNCHANGED <<error, exit_code>>
            ELSE AfterCreateFailed
    /\ UNCHANGED <<tool, cwd, conda_exe, localsExport, localsImport, history, written,
                   log>>

\* subprocess.check_call([conda_exe, "run", "-n", env_name, "pip", "install",
\* "-r", str(req_path)]) and the success message
PipInstallRequirements ==
    /\ tool = "import" /\ pc = "req_install"
    /\ \E rc \in {0, 1} :
         /\ calls' = Append(calls, Call("conda run pip install -r", <<env_name>>, rc))
         /\ IF rc = 0
            THEN /\ log' = Append(log, "SUCCESS created")
                 /\ pc' = "done"
                 /\ exit_code' = Some(0)
                 /\ UNCHANGED error
            ELSE /\ Fail("CalledProcessError", <<>>)
                 /\ UNCHANGED log
    /\ UNCHANGED <<tool, cwd, conda_exe, localsExport, localsImport, history, written,
                   envs>>

(***************************************************************************)
(* The working directories the scripts start in.                           *)
(***************************************************************************)
LinePythonEq == <<"p", "y", "t", "h", "o", "n", "=", "=", "3", ".", "1", "1">>
LinePythonUpper == <<"P", "y", "t", "h", "o", "n", "=", "=", "3", ".", "1", "1">>
LinePythonGe == <<"p", "y", "t", "h", "o", "n", ">", "=", "3", ".", "8">>
LineDateutil == <<"p", "y", "t", "h", "o", "n", "-", "d", "a", "t", "e", "u", "t", "i", "l", "=", "=", "2", ".", "8">>
LineNumpy == <<"n", "u", "m", "p", "y", "=", "=", "1", ".", "2", "6">>
LinePythonNoVersion == <<"p", "y", "t", "h", "o", "n", "=", "=">>
LinePythonTwoOps == <<"p", "y", "t", "h", "o", "n", ">", "=", "3", ".", "8", ",", "=", "=", "3", ".", "9">>
LinePythonIndented == <<" ", "p", "y", "t", "h", "o", "n", "=", "=", "3", ".", "1", "0", " ">>
LinePythonConda == <<"p", "y", "t", "h", "o", "n", "=", "3", ".", "1", "1">>
LinePythonArbitrary == <<"p", "y", "t", "h", "o", "n", "=", "=", "=", "3", ".", "1", "1">>

ReqLines ==
    {LinePythonEq, LinePythonUpper, LinePythonGe, LineDateutil, LineNumpy,
     LinePythonNoVersion, LinePythonTwoOps, LinePythonIndented, LinePythonConda,
     LinePythonArbitrary}

\* requirements files of at most n lines, each line ended by a newline
ReqTexts(n) == {Join(ls, <<NL>>) \o <<NL>> : ls \in SeqUpTo(ReqLines, n) \ {<<>>}} \cup {<<>>}

YmlDocs ==
    {MixedEnv(<<<<"b", "=", "2">>>>, <<<<"x", "=", "=", "1">>>>),
     [name |-> None, dependencies |-> <<Str(<<"a">>)>>]}

EmptyDir == [yml |-> None, req |-> None]

\* the directory the export starts in: empty, or holding the manifests of
\* earlier runs
ExportDirs ==
    {EmptyDir,
     [yml |-> Some(MixedEnv(<<<<"a">>>>, <<>>)),
      req |-> Some(FlatText(<<<<"y", "=", "=", "2">>>>))]}

ImportDirs(n) ==
    {[yml |-> y, req |-> r] :
        y \in {None} \cup {Some(d) : d \in YmlDocs},
        r \in {None} \cup {Some(t) : t \in ReqTexts(n)}}

InitRun(t, dirs) ==
    /\ tool = t
    /\ pc = "locate"
    /\ cwd \in dirs
    /\ conda_exe = None
    /\ explicit_deps = <<>> /\ answers = <<>>
    /\ pip_packages = <<>> /\ conda_only = <<>> /\ tree = <<>>
    /\ written = {}
    /\ latest = None
    /\ runs = IF t = "export" THEN 1 ELSE 0
    /\ env_name = <<>> /\ python_version = None /\ python_spec = <<>>
    /\ manifest_used = None
    /\ envs = {}
    /\ calls = <<>> /\ log = <<>>
    /\ error = NoError
    /\ exit_code = None

(***************************************************************************)
(* Spec: one run of the export script.                                     *)
(***************************************************************************)
Init == InitRun("export", ExportDirs)

Next ==
    \/ ExportLocate
    \/ CondaEnvExport(MaxDeps)
    \/ ClassifyDeps
    \/ EnsurePipdeptree
    \/ RunPipdeptree(MaxTree)
    \/ WriteManifest

Spec == Init /\ [][Next]_vars

(***************************************************************************)
(* SpecImport: one run of the import script in a directory that holds any  *)
(* of the manifests.                                                       *)
(***************************************************************************)
InitImport == InitRun("import", ImportDirs(MaxLines))

NextImport ==
    \/ ImportLocate
    \/ DetectManifest
    \/ CreateEnvFromYml
    \/ ReadRequirements
    \/ CreateBareEnv
    \/ PipInstallRequirements

SpecImport == InitImport /\ [][NextImport]_vars


(***************************************************************************)
(* SpecRoundTrip: export runs in one working directory that starts without *)
(* a manifest, then one run of the import script.                          *)
(***************************************************************************)
\* a new process: nothing but the file system and the environment
\* manager's environments is carried over
NewProcess(t) ==
    /\ pc \in {"done", "failed"}
    /\ tool = "export"
    /\ tool' = t
    /\ pc' = "locate"
    /\ conda_exe' = None
    /\ explicit_deps' = <<>> /\ answers' = <<>>
    /\ pip_packages' = <<>> /\ conda_only' = <<>> /\ tree' = <<>>
    /\ written' = {}
    /\ env_name' = <<>> /\ python_version' = None /\ python_spec' = <<>>
    /\ manifest_used' = None
    /\ calls' = <<>> /\ log' = <<>>
    /\ error' = NoError
    /\ exit_code' = None
    /\ UNCHANGED <<cwd, latest, envs>>

\* python export_conda_env.py, once more
ExportAgain ==
    /\ runs < MaxRuns
    /\ NewProcess("export")
    /\ runs' = runs + 1

\* python import_conda_env.py
StartImport ==
    /\ NewProcess("import")
    /\ UNCHANGED runs

InitRoundTrip == InitRun("export", {EmptyDir})

NextRoundTrip ==
    \/ ExportLocate
    \/ CondaEnvExport(RtMaxDeps)
    \/ ClassifyDeps
    \/ EnsurePipdeptree
    \/ RunPipdeptree(RtMaxTree)
    \/ WriteManifest
    \/ ExportAgain
    \/ StartImport
    \/ ImportLocate
    \/ DetectManifest
    \/ CreateEnvFromYml
    \/ ReadRequirements
    \/ CreateBareEnv
    \/ PipInstallRequirements

SpecRoundTrip == InitRoundTrip /\ [][NextRoundTrip]_vars


(***************************************************************************)
(* Vocabulary of the properties.                                           *)
(***************************************************************************)
\* the entries of seq at the indices I, in increasing order of index
Pick(seq, I) ==
    [m \in 1..Cardinality(I) |->
        seq[CHOOSE i \in I : Cardinality({r \in I : r <= i}) = m]]

\* the indices of s that hold the character c
Positions(s, c) == {k \in 1..Len(s) : s[k] = c}

\* the package name of an entry: the text before its first "="
EntryName(s) ==
    IF Positions(s, "=") = {} THEN s
    ELSE SubSeq(s, 1, (CHOOSE k \in Positions(s, "=") :
                          \A j \in Positions(s, "=") : k <= j) - 1)

\* name=version written the pip way, name==version
PipForm(s) ==
    IF Positions(s, "=") = {} THEN s
    ELSE EntryName(s) \o EqEq \o From(s, Len(EntryName(s)) + 2)

TextsOf(entries) == [i \in 1..Len(entries) |-> entries[i].text]
PipFormsOf(texts) == [i \in 1..Len(texts) |-> PipForm(texts[i])]
NamesOf(texts) == {EntryName(texts[i]) : i \in 1..Len(texts)}

StrIndices == {i \in 1..Len(explicit_deps) : IsStr(explicit_deps[i])}
OnIndex == {i \in StrIndices : answers[i]}
OffIndex == {i \in StrIndices : ~answers[i]}

\* the index checker answered as a function of the package name
AnswersByName ==
    \A i, j \in StrIndices :
        EntryName(explicit_deps[i].text) = EntryName(explicit_deps[j].text)
            => answers[i] = answers[j]

Classified == tool = "export" /\ pc = "ensure_pipdeptree"

\* what the claim says of the string entries
ClassifiedAsClaimed ==
    /\ pip_packages = PipFormsOf(TextsOf(Pick(explicit_deps, OnIndex)))
    /\ conda_only = TextsOf(Pick(explicit_deps, OffIndex))
    /\ AnswersByName => NamesOf(pip_packages) \cap NamesOf(conda_only) = {}
    /\ NamesOf(pip_packages) \cup NamesOf(conda_only)
           = NamesOf(TextsOf(Pick(explicit_deps, StrIndices)))

\* C1 as stated: every entry of the environment manager's list lands in
\* exactly one of the two lists, by the index checker's answer; the lists
\* share no name and their names are the input's names.
C1_EveryEntryClassified ==
    Classified =>
        /\ Len(pip_packages) + Len(conda_only) = Len(explicit_deps)
        /\ ClassifiedAsClaimed

\* C1, amended: every STRING entry of the list lands in exactly one of the
\* two lists (pip list, rewritten to ==, when the checker answers true for
\* its name; manager-only list, unmodified, otherwise), in input order;
\* entries that are not strings land in neither.  For an answer function by
\* name the lists share no name, and their names are the string entries'.
C1_StringEntriesClassified ==
    Classified =>
        /\ Len(pip_packages) + Len(conda_only) = Cardinality(StrIndices)
        /\ ClassifiedAsClaimed

C1_Witness ==
    /\ Classified
    /\ Len(explicit_deps) = 2
    /\ StrIndices = {1, 2}
    /\ Len(pip_packages) = 1
    /\ Len(conda_only) = 1

\* the keys some package of the tree lists as a dependency
Referenced ==
    {k \in PipKeys : \E i \in 1..Len(tree) : \E j \in 1..Len(tree[i].dependencies) :
                        tree[i].dependencies[j].key = k}

RootIndex == {i \in 1..Len(tree) : tree[i].package.key \notin Referenced}

\* the part of pip_packages that was appended after the classification
AppendedRoots == SubSeq(pip_packages, Cardinality(OnIndex) + 1, Len(pip_packages))

TreeRead == tool = "export" /\ pc \in {"write", "done"}

\* C2: the entries appended to the pip list are key==installed_version for
\* exactly the packages whose key no dependency list holds, in the graph's
\* order; without edges every package is a root, and when every package is
\* referenced there is none.
C2_RootsAreUnreferenced ==
    TreeRead =>
        /\ AppendedRoots =
              [m \in 1..Cardinality(RootIndex) |->
                  LET pkg == Pick(tree, RootIndex)[m].package
                  IN  pkg.key \o EqEq \o pkg.installed_version]
        /\ (\A i \in 1..Len(tree) : tree[i].dependencies = <<>>)
              => Len(AppendedRoots) = Len(tree)
        /\ (\A i \in 1..Len(tree) : tree[i].package.key \in Referenced)
              => AppendedRoots = <<>>

C2_Witness ==
    /\ TreeRead
    /\ Len(tree) = 2
    /\ tree[1].package.key # tree[2].package.key
    /\ tree[2].dependencies = <<[key |-> tree[1].package.key]>>
    /\ Len(AppendedRoots) = 1

C4_MixedManifestLayout ==
    (tool = "export" /\ pc = "done" /\ "environment.yml" \in written) =>
        LET doc == cwd.yml[1]
            managed == TextsOf(Pick(explicit_deps, OffIndex))
            n == Len(managed)
            pips == PipFormsOf(TextsOf(Pick(explicit_deps, OnIndex))) \o AppendedRoots
        IN  /\ doc.name = Some("exported_env")
            /\ Len(doc.dependencies) = n + (IF pips # <<>> THEN 1 ELSE 0)
            /\ \A i \in 1..n : doc.dependencies[i] = Str(managed[i])
            /\ pips # <<>> => doc.dependencies[n + 1] = [kind |-> "pip", pip |-> pips]
            /\ pips = pip_packages

C4_Witness ==
    /\ tool = "export" /\ pc = "done" /\ "environment.yml" \in written
    /\ Len(cwd.yml[1].dependencies) = 3
    /\ cwd.yml[1].dependencies[3].kind = "pip"
    /\ Len(cwd.yml[1].dependencies[3].pip) = 2

\* a line of the form name==version: a name and a version without "=",
\* neither empty, joined by "=="
IsNameEqEqVersion(line) ==
    \E k \in 2..(Len(line) - 2) :
        /\ Positions(line, "=") = {k, k + 1}

\* C7: requirements.txt holds one name==version line per pip package, the
\* classified entries then the roots, no blank line, one trailing newline.
C7_FlatLinesAreNameEqEqVersion ==
    (tool = "export" /\ pc = "done" /\ "requirements.txt" \in written) =>
        LET text == cwd.req[1]
            ls == FileLines(text)
        IN  /\ Len(ls) = Len(pip_packages)
            /\ \A i \in 1..Len(ls) :
                  /\ ls[i] = pip_packages[i] \o <<NL>>
                  /\ IsNameEqEqVersion(pip_packages[i])
            /\ text # <<>> /\ text[Len(text)] = NL


Ended == pc \in {"done", "failed"}

CallsOf(cmd) == {k \in 1..Len(calls) : calls[k].cmd = cmd}

CreateCmds == {"conda env create -f", "conda create"}
ManagerCalls == UNION {CallsOf(c) : c \in CreateCmds \cup {"conda run pip install -r"}}

\* what the claim says main() does with the working directory
DetectionAsClaimed ==
    /\ cwd.yml # None =>
          /\ manifest_used = Some("environment.yml")
          /\ CallsOf("conda env create -f") # {}
          /\ CallsOf("conda create") = {}
    /\ (cwd.yml = None /\ cwd.req # None) =>
          /\ manifest_used = Some("requirements.txt")
          /\ CallsOf("conda create") # {}
          /\ CallsOf("conda env create -f") = {}
    /\ (cwd.yml = None /\ cwd.req = None) =>
          /\ "ERROR no manifest" \in Range(log)
          /\ ManagerCalls = {}
          /\ envs = {}
          /\ exit_code = Some(0)

\* C5 as stated: main() takes the mixed path whenever environment.yml
\* exists, the flat path only when it is absent and requirements.txt exists,
\* and with neither reports the error, starts no create or install and ends
\* with status zero.
C5_DetectionOrder ==
    (tool = "import" /\ Ended) => DetectionAsClaimed

\* C5, amended: the same, once get_conda_executable has returned a path;
\* when it raises FileNotFoundError main() looks at no manifest, starts no
\* subprocess and ends with a non-zero status, whatever the directory holds.
C5_DetectionOrderOnceLocated ==
    (tool = "import" /\ Ended) =>
        IF conda_exe # None
        THEN DetectionAsClaimed
        ELSE /\ error # NoError /\ error[1].type = "FileNotFoundError"
             /\ manifest_used = None
             /\ calls = <<>>
             /\ envs = {}
             /\ exit_code = Some(1)

C5_Witness ==
    /\ tool = "import" /\ pc = "done"
    /\ conda_exe # None
    /\ cwd = EmptyDir
    /\ log = <<"ERROR no manifest">>
    /\ exit_code = Some(0)

\* C6: a FileNotFoundError of get_conda_executable, in either script, lists
\* every location that was checked, and is raised only when none holds the
\* executable.
C6_ErrorListsEveryLocation ==
    (error # NoError /\ error[1].type = "FileNotFoundError") =>
        /\ error[1].searched = <<PathEntry, ScriptsConda, BinConda>>
        /\ conda_exe = None

FlatPath == tool = "import" /\ manifest_used = Some("requirements.txt")

\* C8: on the flat path pip install -r is started only right after a create
\* that returned zero; a failed create ends the run with a non-zero status
\* and no install; a failed install leaves the created environment in
\* place, runs nothing else and prints no success message.
C8_CreateThenInstall ==
    FlatPath =>
        /\ \A k \in CallsOf("conda run pip install -r") :
              /\ k > 1
              /\ calls[k - 1].cmd = "conda create"
              /\ calls[k - 1].rc = 0
        /\ \A k \in CallsOf("conda create") :
              calls[k].rc # 0 =>
                  /\ CallsOf("conda run pip install -r") = {}
                  /\ pc = "failed"
                  /\ exit_code = Some(1)
                  /\ "SUCCESS created" \notin Range(log)
        /\ \A k \in CallsOf("conda run pip install -r") :
              calls[k].rc # 0 =>
                  /\ env_name \in envs
                  /\ k = Len(calls)
                  /\ pc = "failed"
                  /\ exit_code = Some(1)
                  /\ "SUCCESS created" \notin Range(log)
        /\ "SUCCESS created" \in Range(log) =>
              /\ Len(calls) = 2
              /\ calls[2].cmd = "conda run pip install -r" /\ calls[2].rc = 0

C8_Witness ==
    /\ FlatPath /\ pc = "failed"
    /\ Len(calls) = 2
    /\ calls[1].rc = 0 /\ calls[2].rc = 1
    /\ env_name \in envs

\* the lines of requirements.txt, stripped
StrippedLines == LET ls == FileLines(cwd.req[1]) IN [i \in 1..Len(ls) |-> Strip(ls[i])]

\* the lines that begin, in any case, with python== or python>=
PinLines ==
    {i \in 1..Len(StrippedLines) :
        LET l == StrippedLines[i]
        IN  /\ Len(l) >= 8
            /\ Lower(SubSeq(l, 1, 6)) = PythonName
            /\ SubSeq(l, 7, 8) \in {EqEq, GtEq}}

FirstPin == CHOOSE i \in PinLines : \A j \in PinLines : i <= j

Scanned == FlatPath /\ pc \in {"req_create", "req_install", "done", "failed"}

\* the python spec handed to `conda create`
CreatedWith(spec) ==
    /\ python_spec = spec
    /\ \A k \in CallsOf("conda create") : calls[k].arg = <<env_name, spec>>

\* C9 as stated: the version is the text after the operator of the first
\* line that begins with python== or python>=, and the environment is
\* created with python=<version>; without such a line, with python.
C9_VersionAfterOperator ==
    Scanned =>
        IF PinLines # {}
        THEN CreatedWith(PythonName \o <<"=">> \o From(StrippedLines[FirstPin], 9))
        ELSE CreatedWith(PythonName)

\* C9, amended: the version is taken from the first line that begins, in
\* any case, with python== or python>=; it is the last piece of that line
\* split at "==" when the line holds "==", else the last piece of the line
\* split at ">="; the environment is created with python=<version> when the
\* version is not empty, and with the unpinned python when it is empty or
\* no line matches.
C9_VersionIsLastPiece ==
    Scanned =>
        IF PinLines # {}
        THEN LET l == StrippedLines[FirstPin]
                 v == IF Contains(l, EqEq) THEN SplitLast(l, EqEq) ELSE SplitLast(l, GtEq)
             IN  /\ python_version = Some(v)
                 /\ CreatedWith(IF v # <<>> THEN PythonName \o <<"=">> \o v ELSE PythonName)
        ELSE /\ python_version = None
             /\ CreatedWith(PythonName)

C9_Witness ==
    /\ Scanned
    /\ StrippedLines = <<LineDateutil, LinePythonEq>>
    /\ python_spec = PythonName \o <<"=", "3", ".", "1", "1">>
    /\ CallsOf("conda create") # {}

\* C10: the manifest an import run consumes is the one the most recent
\* export run wrote.
C10_ImportUsesLatestExport ==
    (tool = "import" /\ manifest_used # None) => manifest_used = latest

====
